---- MODULE Spec2Model ----
(***************************************************************************)
(* Model of the detection test suite that is appended to                   *)
(* src/services/web/static/app.js (lines 454-552): a bash script that      *)
(* sweeps the frame-skip values 1 2 4 over three directories of clips,     *)
(* runs the detector on every clip, scores the output and keeps the        *)
(* PASS / FAIL / WARN counters.                                            *)
(*                                                                         *)
(* The script runs under `set -euo pipefail` (line 455), so the model      *)
(* carries the shell's rules: a simple command, an assignment from a       *)
(* command substitution or a (( )) command that returns a non-zero status  *)
(* ends the script with that status, and a pipeline returns the status of  *)
(* its rightmost failing command.                                          *)
(*                                                                         *)
(* Detector output is modelled as a sequence of tokens: a digit, " ",      *)
(* the word "animal", the suffix "(s)", "\n", "BULK" (a block of other     *)
(* text larger than the pipe capacity) and any other string (other text).  *)
(***************************************************************************)
EXTENDS Integers, Sequences, FiniteSets, TLC

VARIABLES
    arithErrexit,   \* TRUE: the bash in PATH applies errexit to (( )) (bash >= 4.1)
    dirExists,      \* category -> the directory clips/<category> exists
    nClips,         \* category -> number of *.mp4 files in clips/<category>
    pc,             \* position of the script
    idx,            \* position of the sweep in Work (1-based)
    detector,       \* "idle", "running" or "hung": the python child process
    clip,           \* $1 of run_clip: file number, or Pattern for the unexpanded glob
    frame_skip,     \* $2 of run_clip
    expect,         \* $3 of run_clip
    output,         \* $output (global)
    status,         \* exit status of the last detector invocation
    has_detection,  \* $has_detection (global)
    result,         \* local result
    count,          \* local count, a string of digits
    PASS,
    FAIL,
    WARN,
    lines,          \* number of per-clip progress lines printed
    summaryPrinted, \* the "Results:" line was printed
    exitStatus      \* exit status of the script, -1 while it runs

\* the catalog page (lines 1-452 of the same file)
VARIABLES
    started,        \* the start-up call loadCats().then(() => loadAllSightings()) was made
    selectedCatId,  \* a cat id or "null"
    currentView,    \* "all", "unassigned" or a cat id
    currentPage,
    lastPageFull,
    unassigned,     \* server: number of sightings without a cat
    assigned,       \* server: cat id -> number of its sightings
    pending,        \* requests in flight
    events,         \* number of clicks handled so far
    screen,         \* what renderSightings last put into #sightingsList
    detail,         \* the cat shown in #detailPanel, or "null"
    errorLogged,    \* console.error was called
    last            \* the handler or continuation that ran last

harnessVars ==
    <<arithErrexit, dirExists, nClips, pc, idx, detector, clip, frame_skip,
      expect, output, status, has_detection, result, count, PASS, FAIL,
      WARN, lines, summaryPrinted, exitStatus>>

uiVars ==
    <<started, selectedCatId, currentView, currentPage, lastPageFull,
      unassigned, assigned, pending, events, screen, detail, errorLogged, last>>

vars == <<harnessVars, uiVars>>

(* ------------------------------ bounds --------------------------------- *)

MaxClips == 2

\* cats in the sidebar
MaxCats == 1

\* the server holds fewer than MaxPages full pages of sightings per group
MaxPages == 2

\* clicks the user makes in one behaviour
MaxEvents == 2

(* ----------------------------- constants ------------------------------- *)

FrameSkips == <<1, 2, 4>>

PAGE_SIZE == 20

CatIds == {ToString(i) : i \in 1..MaxCats}

\* numbers of sightings a group may hold at page load
Counts == {p * PAGE_SIZE + r : p \in 0..(MaxPages - 1), r \in {0, 1}}

Categories == <<"positives", "negatives", "negative-but-close-enough">>

CategorySet == {Categories[i] : i \in 1..Len(Categories)}

\* the word a glob that matches nothing is left as
Pattern == 0

Expect(c) ==
    CASE c = "positives" -> "detect"
      [] c = "negatives" -> "none"
      [] c = "negative-but-close-enough" -> "either"

CategoryOf(e) ==
    CASE e = "detect" -> "positives"
      [] e = "none" -> "negatives"
      [] e = "either" -> "negative-but-close-enough"

Digits == {"0", "1", "2", "3", "4", "5", "6", "7", "8", "9"}

\* texts the detector may print (stdout and stderr merged)
DetectorOutputs ==
    { <<"3", " ", "animal", "(s)", " ", "detected">>,
      <<"animal", "(s)", " ", "found">>,
      <<"no", " ", "animal", " ", "3", " ", "animal", "(s)">>,
      <<"5", " ", "animal", "s">>,
      <<"no", " ", "detections">>,
      <<"1", " ", "animal", "(s)", "\n", "BULK">>,
      <<>> }

\* exit statuses of the detector
DetectorStatuses == {0, 1}

(* ------------------------- the shell's words --------------------------- *)

\* for clip in clips/<category>/*.mp4 : the files, or the pattern itself
Glob(c) ==
    IF dirExists[c] /\ nClips[c] > 0
    THEN [i \in 1..nClips[c] |-> i]
    ELSE <<Pattern>>

CatWork(fs, c) ==
    [i \in 1..Len(Glob(c)) |->
        [clip |-> Glob(c)[i], frame_skip |-> fs, expect |-> Expect(c)]]

\* the negatives loop stands before the positives loop
PassWork_NegativesFirst(fs) ==
    CatWork(fs, Categories[2]) \o CatWork(fs, Categories[1]) \o CatWork(fs, Categories[3])

PassWork(fs) ==
    CatWork(fs, Categories[1]) \o CatWork(fs, Categories[2]) \o CatWork(fs, Categories[3])

\* the calls of run_clip, in the order the nested loops make them
Work == PassWork(FrameSkips[1]) \o PassWork(FrameSkips[2]) \o PassWork(FrameSkips[3])

(* --------------------------- text scraping ----------------------------- *)

\* grep -q "animal(s)"
HasMarker(s) ==
    \E i \in 1..(Len(s) - 1) : s[i] = "animal" /\ s[i + 1] = "(s)"

\* echo "$output" | grep -q ... under pipefail: grep leaves at the first
\* match, and echo dies of SIGPIPE (status 141) when text that does not fit
\* the pipe is still to be written
EchoMayBreak(s) ==
    \E i \in 1..(Len(s) - 1) :
        /\ s[i] = "animal" /\ s[i + 1] = "(s)"
        /\ \E k \in (i + 2)..Len(s) : s[k] = "BULK"

\* outcomes of the condition of the if at line 471
MarkerTest(s) ==
    IF HasMarker(s)
    THEN IF EchoMayBreak(s) THEN {TRUE, FALSE} ELSE {TRUE}
    ELSE {FALSE}

\* a match of '[0-9]* animal' that starts at i and has its space at j
MatchAt(s, i, j) ==
    /\ i <= j
    /\ j + 1 <= Len(s)
    /\ \A k \in i..(j - 1) : s[k] \in Digits
    /\ s[j] = " "
    /\ s[j + 1] = "animal"

MatchStarts(s) ==
    {i \in 1..Len(s) : \E j \in i..Len(s) : MatchAt(s, i, j)}

\* grep -o '[0-9]* animal' | head -1 | grep -o '[0-9]*' : text and status
GrepCount(s) ==
    IF MatchStarts(s) = {}
    THEN [text |-> <<>>, status |-> 1]
    ELSE LET i == CHOOSE m \in MatchStarts(s) : \A n \in MatchStarts(s) : m <= n
             j == CHOOSE n \in i..Len(s) : MatchAt(s, i, n)
         IN  [text |-> SubSeq(s, i, j - 1), status |-> 0]

(* ------------------------------ scoring -------------------------------- *)

\* a borderline clip that is detected counts as a failure
Verdict_BorderlineFails(e, det) ==
    CASE e = "detect" ->
            IF det THEN [result |-> "PASS", counter |-> "PASS"]
                   ELSE [result |-> "FAIL", counter |-> "FAIL"]
      [] e = "none" ->
            IF det THEN [result |-> "FAIL", counter |-> "FAIL"]
                   ELSE [result |-> "PASS", counter |-> "PASS"]
      [] e = "either" ->
            IF det THEN [result |-> "OK (detected)", counter |-> "FAIL"]
                   ELSE [result |-> "OK (missed)", counter |-> "PASS"]

\* the branches of the none case are exchanged
Verdict_NegativeInverted(e, det) ==
    CASE e = "detect" ->
            IF det THEN [result |-> "PASS", counter |-> "PASS"]
                   ELSE [result |-> "FAIL", counter |-> "FAIL"]
      [] e = "none" ->
            IF det THEN [result |-> "PASS", counter |-> "PASS"]
                   ELSE [result |-> "FAIL", counter |-> "FAIL"]
      [] e = "either" ->
            IF det THEN [result |-> "OK (detected)", counter |-> "WARN"]
                   ELSE [result |-> "OK (missed)", counter |-> "PASS"]

\* the case statement of run_clip: the result text and the counter it bumps
Verdict(e, det) ==
    CASE e = "detect" ->
            IF det THEN [result |-> "PASS", counter |-> "PASS"]
                   ELSE [result |-> "FAIL", counter |-> "FAIL"]
      [] e = "none" ->
            IF det THEN [result |-> "FAIL", counter |-> "FAIL"]
                   ELSE [result |-> "PASS", counter |-> "PASS"]
      [] e = "either" ->
            IF det THEN [result |-> "OK (detected)", counter |-> "WARN"]
                   ELSE [result |-> "OK (missed)", counter |-> "PASS"]

\* ((X++)) returns 1 when the value before the increment is 0
PostIncrStatus(old) == IF old = 0 THEN 1 ELSE 0

(* ------------------------------- state --------------------------------- *)

\* #sightingsList before the first renderSightings
NoScreen ==
    [kind |-> "none", view |-> "all", page |-> 0, n |-> 0, label |-> 0,
     prev |-> FALSE, next |-> FALSE]

NoRequest ==
    [kind |-> "none", view |-> "all", page |-> 0, n |-> -1,
     origin |-> "none", pageBefore |-> 0]

\* the module-level lets of the page, before any handler ran
PageStart ==
    /\ started = FALSE
    /\ selectedCatId = "null"
    /\ currentView = "all"
    /\ currentPage = 0
    /\ lastPageFull = FALSE
    /\ pending = {}
    /\ events = 0
    /\ screen = NoScreen
    /\ detail = "null"
    /\ errorLogged = FALSE
    /\ last = [ev |-> "none", req |-> NoRequest]

\* the script before its first loop
ScriptStart ==
    /\ pc = "loop"
    /\ idx = 1
    /\ detector = "idle"
    /\ clip = Pattern
    /\ frame_skip = 0
    /\ expect = ""
    /\ output = <<>>
    /\ status = 0
    /\ has_detection = FALSE
    /\ result = ""
    /\ count = <<>>
    /\ PASS = 0
    /\ FAIL = 0
    /\ WARN = 0
    /\ lines = 0
    /\ summaryPrinted = FALSE
    /\ exitStatus = -1

Init ==
    /\ arithErrexit \in BOOLEAN
    /\ dirExists \in [CategorySet -> BOOLEAN]
    /\ nClips \in [CategorySet -> 0..MaxClips]
    /\ \A c \in CategorySet : ~dirExists[c] => nClips[c] = 0
    /\ PageStart
    /\ unassigned = 0
    /\ assigned = [c \in CatIds |-> 0]
    /\ ScriptStart

\* errexit: the script ends with the status of the failed command
Abort(st) ==
    /\ pc' = "exited"
    /\ exitStatus' = st

\* the for loops call run_clip for the next clip and the detector starts
NextClip ==
    /\ pc = "loop"
    /\ idx <= Len(Work)
    /\ clip' = Work[idx].clip
    /\ frame_skip' = Work[idx].frame_skip
    /\ expect' = Work[idx].expect
    /\ detector' = "running"
    /\ pc' = "invoke"
    /\ UNCHANGED uiVars
    /\ UNCHANGED <<arithErrexit, dirExists, nClips, idx, output, status,
                   has_detection, result, count, PASS, FAIL, WARN, lines,
                   summaryPrinted, exitStatus>>

\* output=$(python cli/detect.py ...) : the detector ends with text out and status st
DetectorReturns(out, st) ==
    /\ pc = "invoke"
    /\ detector = "running"
    /\ detector' = "idle"
    /\ output' = out
    /\ status' = st
    /\ IF st # 0
       THEN Abort(st)
       ELSE pc' = "grep" /\ UNCHANGED exitStatus
    /\ UNCHANGED uiVars
    /\ UNCHANGED <<arithErrexit, dirExists, nClips, idx, clip, frame_skip,
                   expect, has_detection, result, count, PASS, FAIL, WARN,
                   lines, summaryPrinted>>

\* the detector never ends; the script has no timeout and waits
DetectorHangs ==
    /\ pc = "invoke"
    /\ detector = "running"
    /\ detector' = "hung"
    /\ UNCHANGED uiVars
    /\ UNCHANGED <<arithErrexit, dirExists, nClips, pc, idx, clip, frame_skip,
                   expect, output, status, has_detection, result, count, PASS,
                   FAIL, WARN, lines, summaryPrinted, exitStatus>>

\* has_detection=false; if echo "$output" | grep -q "animal(s)"; then has_detection=true
GrepMarker ==
    /\ pc = "grep"
    /\ has_detection' \in MarkerTest(output)
    /\ result' = ""
    /\ pc' = "score"
    /\ UNCHANGED uiVars
    /\ UNCHANGED <<arithErrexit, dirExists, nClips, idx, detector, clip,
                   frame_skip, expect, output, status, count, PASS, FAIL, WARN,
                   lines, summaryPrinted, exitStatus>>

\* case "$expect" in ... esac
Score ==
    /\ pc = "score"
    /\ LET v == Verdict(expect, has_detection)
           old == CASE v.counter = "PASS" -> PASS
                    [] v.counter = "FAIL" -> FAIL
                    [] v.counter = "WARN" -> WARN
       IN  /\ result' = v.result
           /\ PASS' = IF v.counter = "PASS" THEN PASS + 1 ELSE PASS
           /\ FAIL' = IF v.counter = "FAIL" THEN FAIL + 1 ELSE FAIL
           /\ WARN' = IF v.counter = "WARN" THEN WARN + 1 ELSE WARN
           /\ IF arithErrexit /\ PostIncrStatus(old) # 0
              THEN Abort(PostIncrStatus(old))
              ELSE pc' = "count" /\ UNCHANGED exitStatus
    /\ UNCHANGED uiVars
    /\ UNCHANGED <<arithErrexit, dirExists, nClips, idx, detector, clip,
                   frame_skip, expect, output, status, has_detection, count,
                   lines, summaryPrinted>>

\* local count="0"; if $has_detection; then count=$(... | grep -o '[0-9]*'); fi
ExtractCount ==
    /\ pc = "count"
    /\ IF has_detection
       THEN /\ count' = GrepCount(output).text
            /\ IF GrepCount(output).status # 0
               THEN Abort(GrepCount(output).status)
               ELSE pc' = "print" /\ UNCHANGED exitStatus
       ELSE /\ count' = <<"0">>
            /\ pc' = "print"
            /\ UNCHANGED exitStatus
    /\ UNCHANGED uiVars
    /\ UNCHANGED <<arithErrexit, dirExists, nClips, idx, detector, clip,
                   frame_skip, expect, output, status, has_detection, result,
                   PASS, FAIL, WARN, lines, summaryPrinted>>

\* printf of the progress line; run_clip returns and the loop goes on
PrintLine ==
    /\ pc = "print"
    /\ lines' = lines + 1
    /\ idx' = idx + 1
    /\ pc' = "loop"
    /\ UNCHANGED uiVars
    /\ UNCHANGED <<arithErrexit, dirExists, nClips, detector, clip, frame_skip,
                   expect, output, status, has_detection, result, count, PASS,
                   FAIL, WARN, summaryPrinted, exitStatus>>

\* echo " Results: $PASS passed, $FAIL failed, $WARN borderline"
Summary ==
    /\ pc = "loop"
    /\ idx > Len(Work)
    /\ summaryPrinted' = TRUE
    /\ pc' = "summary"
    /\ UNCHANGED uiVars
    /\ UNCHANGED <<arithErrexit, dirExists, nClips, idx, detector, clip,
                   frame_skip, expect, output, status, has_detection, result,
                   count, PASS, FAIL, WARN, lines, exitStatus>>

\* if [ "$FAIL" -gt 0 ]; then exit 1; fi
ExitCheck ==
    /\ pc = "summary"
    /\ pc' = "exited"
    /\ exitStatus' = IF FAIL > 0 THEN 1 ELSE 0
    /\ UNCHANGED uiVars
    /\ UNCHANGED <<arithErrexit, dirExists, nClips, idx, detector, clip,
                   frame_skip, expect, output, status, has_detection, result,
                   count, PASS, FAIL, WARN, lines, summaryPrinted>>

Next ==
    \/ NextClip
    \/ \E out \in DetectorOutputs, st \in DetectorStatuses : DetectorReturns(out, st)
    \/ DetectorHangs
    \/ GrepMarker
    \/ Score
    \/ ExtractCount
    \/ PrintLine
    \/ Summary
    \/ ExitCheck

Spec == Init /\ [][Next]_vars

\* the shell runs its next command whenever there is one, and a detector
\* that has not hung ends
FairSpec == Spec /\ WF_vars(Next)

(* ------------------- the sweep with a scripted detector ---------------- *)

Detected == <<"3", " ", "animal", "(s)", " ", "detected">>

Missed == <<"no", " ", "detections">>

\* a detector that reports every positive clip, no negative clip, and the
\* borderline clip at the second frame skip only; at the third frame skip
\* it is the detector of Next
ScenarioOutputs(e, fs) ==
    IF fs = FrameSkips[3] THEN DetectorOutputs
    ELSE CASE e = "detect" -> {Detected}
           [] e = "none" -> {Missed}
           [] e = "either" -> IF fs = FrameSkips[2] THEN {Detected} ELSE {Missed}

ScenarioStatuses(fs) ==
    IF fs = FrameSkips[3] THEN DetectorStatuses ELSE {0}

ScenarioDetectorReturns ==
    /\ pc = "invoke"
    /\ \E out \in ScenarioOutputs(expect, frame_skip), st \in ScenarioStatuses(frame_skip) :
          DetectorReturns(out, st)

ScenarioDetectorHangs ==
    /\ frame_skip = FrameSkips[3]
    /\ DetectorHangs

\* one clip in each of the three directories
ScenarioInit ==
    /\ arithErrexit \in BOOLEAN
    /\ dirExists = [c \in CategorySet |-> TRUE]
    /\ nClips = [c \in CategorySet |-> 1]
    /\ PageStart
    /\ unassigned = 0
    /\ assigned = [c \in CatIds |-> 0]
    /\ ScriptStart

ScenarioNext ==
    \/ NextClip
    \/ ScenarioDetectorReturns
    \/ ScenarioDetectorHangs
    \/ GrepMarker
    \/ Score
    \/ ExtractCount
    \/ PrintLine
    \/ Summary
    \/ ExitCheck

ScenarioSpec == ScenarioInit /\ [][ScenarioNext]_vars

(* --------------------------- the catalog page -------------------------- *)
(* The page of lines 1-452: its view state, the requests it has in flight  *)
(* and what renderSightings last drew.  A handler runs to its first await   *)
(* in one step; the continuation after an await is a step of its own.       *)
(* The server is the collaborator behind api(): it answers a request at     *)
(* some moment after it was sent, and any request may fail.  The cat list   *)
(* is taken as loaded and fixed; loadStats, loadCats, createCat, the video  *)
(* modal and the sidebar toggle touch none of the variables below.          *)

Views == {"all", "unassigned"} \cup CatIds

RECURSIVE SumAssigned(_)
SumAssigned(S) ==
    IF S = {} THEN 0
    ELSE LET c == CHOOSE x \in S : TRUE IN assigned[c] + SumAssigned(S \ {c})

\* number of sightings the server holds for a view
Total(v) ==
    CASE v = "all" -> unassigned + SumAssigned(CatIds)
      [] v = "unassigned" -> unassigned
      [] OTHER -> assigned[v]

\* length of the answer to limit=PAGE_SIZE&offset=page*PAGE_SIZE
PageLen(v, page) ==
    LET rest == Total(v) - page * PAGE_SIZE
    IN  IF rest <= 0 THEN 0 ELSE IF rest >= PAGE_SIZE THEN PAGE_SIZE ELSE rest

\* the state a handler works on; from is currentPage when the handler began
Page ==
    [sel |-> selectedCatId, view |-> currentView, page |-> currentPage,
     pending |-> pending, detail |-> detail,
     from |-> currentPage, full |-> lastPageFull]

\* api(path): a request leaves; n is -1 until the server has answered
api(s, kind, view, origin, n) ==
    [s EXCEPT
        !.pending = @ \cup {[kind |-> kind, view |-> view, page |-> s.page,
                             n |-> n, origin |-> origin, pageBefore |-> s.from]}]

loadAllSightings(s, resetPage, origin) ==
    api([s EXCEPT !.sel = "null", !.view = "all",
                  !.page = IF resetPage THEN 0 ELSE @],
        "sightings", "all", origin, -1)

loadUnassignedSightings(s, resetPage, origin) ==
    api([s EXCEPT !.sel = "null", !.view = "unassigned",
                  !.page = IF resetPage THEN 0 ELSE @],
        "sightings", "unassigned", origin, -1)

loadCatSightings(s, catId, resetPage, origin) ==
    api([s EXCEPT !.page = IF resetPage THEN 0 ELSE @],
        "sightings", catId, origin, -1)

reloadCurrentView(s, origin) ==
    IF s.view = "all" THEN loadAllSightings(s, FALSE, origin)
    ELSE IF s.view = "unassigned" THEN loadUnassignedSightings(s, FALSE, origin)
    ELSE loadCatSightings(s, s.view, FALSE, origin)

prevPage(s) ==
    IF s.page <= 0 THEN s
    ELSE reloadCurrentView([s EXCEPT !.page = @ - 1], "prev")

nextPage(s) ==
    IF ~s.full THEN s
    ELSE reloadCurrentView([s EXCEPT !.page = @ + 1], "next")

loadCatDetail(s, catId) ==
    api(loadCatSightings([s EXCEPT !.sel = catId, !.view = catId],
                         catId, TRUE, "select"),
        "detail", catId, "select", 1)

\* the call of loadAllSightings is left out
deleteCat_NoReload(s) ==
    [s EXCEPT !.sel = "null", !.detail = "null"]

\* the part of deleteCat after its await
deleteCat(s) ==
    [loadAllSightings([s EXCEPT !.sel = "null"], TRUE, "select")
        EXCEPT !.detail = "null"]

\* the part of assignSighting after its await
assignSighting(s) ==
    IF s.view = "all" THEN loadAllSightings(s, TRUE, "select")
    ELSE IF s.view = "unassigned" THEN loadUnassignedSightings(s, TRUE, "select")
    ELSE s

\* what renderSightings(sightings) leaves in #sightingsList; r is the
\* answered request, page and full are currentPage and lastPageFull
renderSightings(r, page, full) ==
    IF r.n = 0
    THEN [kind |-> "empty", view |-> r.view, page |-> r.page, n |-> 0,
          label |-> page, prev |-> FALSE, next |-> FALSE]
    ELSE [kind |-> "list", view |-> r.view, page |-> r.page, n |-> r.n,
          label |-> page, prev |-> (page # 0), next |-> full]

\* the handler leaves the state s behind
Commit(s, ev, r) ==
    /\ selectedCatId' = s.sel
    /\ currentView' = s.view
    /\ currentPage' = s.page
    /\ pending' = s.pending
    /\ detail' = s.detail
    /\ last' = [ev |-> ev, req |-> r]

\* a card without an assigned cat is on screen: it carries the assign
\* select and the "Not a cat!" button
FreeCardShown ==
    /\ screen.kind = "list"
    /\ screen.view \in {"all", "unassigned"}
    /\ unassigned > 0

\* loadCats().then(() => loadAllSightings())
Startup ==
    /\ ~started
    /\ started' = TRUE
    /\ Commit(loadAllSightings(Page, TRUE, "select"), "loadAllSightings", NoRequest)
    /\ UNCHANGED <<events, lastPageFull, unassigned, assigned, screen, errorLogged>>
    /\ UNCHANGED harnessVars

\* onclick="loadAllSightings(); renderDetail(null);"
ClickAll ==
    /\ events < MaxEvents
    /\ events' = events + 1
    /\ Commit([loadAllSightings(Page, TRUE, "select") EXCEPT !.detail = "null"],
              "loadAllSightings", NoRequest)
    /\ UNCHANGED <<started, lastPageFull, unassigned, assigned, screen, errorLogged>>
    /\ UNCHANGED harnessVars

\* onclick="loadUnassignedSightings(); renderDetail(null);"
ClickUnassigned ==
    /\ events < MaxEvents
    /\ events' = events + 1
    /\ Commit([loadUnassignedSightings(Page, TRUE, "select") EXCEPT !.detail = "null"],
              "loadUnassignedSightings", NoRequest)
    /\ UNCHANGED <<started, lastPageFull, unassigned, assigned, screen, errorLogged>>
    /\ UNCHANGED harnessVars

\* onclick="loadCatDetail(id)" of a cat item, or Cancel of the edit form
ClickCat(c) ==
    /\ started
    /\ events < MaxEvents
    /\ events' = events + 1
    /\ Commit(loadCatDetail(Page, c), "loadCatDetail", NoRequest)
    /\ UNCHANGED <<started, lastPageFull, unassigned, assigned, screen, errorLogged>>
    /\ UNCHANGED harnessVars

\* the Previous button of the pagination that is on screen
ClickPrev ==
    /\ screen.kind = "list"
    /\ screen.prev
    /\ events < MaxEvents
    /\ events' = events + 1
    /\ Commit(prevPage(Page), "prevPage", NoRequest)
    /\ UNCHANGED <<started, lastPageFull, unassigned, assigned, screen, errorLogged>>
    /\ UNCHANGED harnessVars

\* the Next button of the pagination that is on screen
ClickNext ==
    /\ screen.kind = "list"
    /\ screen.next
    /\ events < MaxEvents
    /\ events' = events + 1
    /\ Commit(nextPage(Page), "nextPage", NoRequest)
    /\ UNCHANGED <<started, lastPageFull, unassigned, assigned, screen, errorLogged>>
    /\ UNCHANGED harnessVars

\* dismissSighting up to its await: DELETE /sightings/<id>
ClickDismiss ==
    /\ FreeCardShown
    /\ events < MaxEvents
    /\ events' = events + 1
    /\ Commit(api(Page, "dismiss", currentView, "none", -1), "dismissSighting", NoRequest)
    /\ UNCHANGED <<started, lastPageFull, unassigned, assigned, screen, errorLogged>>
    /\ UNCHANGED harnessVars

\* assignSighting up to its await: PATCH /sightings/<id>
ClickAssign(c) ==
    /\ FreeCardShown
    /\ events < MaxEvents
    /\ events' = events + 1
    /\ Commit(api(Page, "assign", c, "none", -1), "assignSighting", NoRequest)
    /\ UNCHANGED <<started, lastPageFull, unassigned, assigned, screen, errorLogged>>
    /\ UNCHANGED harnessVars

\* deleteCat up to its await, the confirm dialog accepted: DELETE /cats/<id>
ClickDelete(c) ==
    /\ detail = c
    /\ events < MaxEvents
    /\ events' = events + 1
    /\ Commit(api(Page, "deleteCat", c, "none", 1), "deleteCat", NoRequest)
    /\ UNCHANGED <<started, lastPageFull, unassigned, assigned, screen, errorLogged>>
    /\ UNCHANGED harnessVars

\* editCat and saveCat up to its await: PATCH /cats/<id>
ClickSave(c) ==
    /\ detail = c
    /\ events < MaxEvents
    /\ events' = events + 1
    /\ Commit(api(Page, "saveCat", c, "none", 1), "saveCat", NoRequest)
    /\ UNCHANGED <<started, lastPageFull, unassigned, assigned, screen, errorLogged>>
    /\ UNCHANGED harnessVars

\* the server answers a request: a page of sightings, or the change is made
ServerAnswers(r) ==
    /\ r \in pending
    /\ r.n = -1
    /\ CASE r.kind = "sightings" ->
               /\ pending' = (pending \ {r}) \cup {[r EXCEPT !.n = PageLen(r.view, r.page)]}
               /\ UNCHANGED <<unassigned, assigned>>
         [] r.kind = "dismiss" ->
               /\ pending' = (pending \ {r}) \cup {[r EXCEPT !.n = IF unassigned > 0 THEN 1 ELSE 0]}
               /\ unassigned' = IF unassigned > 0 THEN unassigned - 1 ELSE 0
               /\ UNCHANGED assigned
         [] r.kind = "assign" ->
               /\ pending' = (pending \ {r}) \cup {[r EXCEPT !.n = IF unassigned > 0 THEN 1 ELSE 0]}
               /\ unassigned' = IF unassigned > 0 THEN unassigned - 1 ELSE 0
               /\ assigned' = IF unassigned > 0
                              THEN [assigned EXCEPT ![r.view] = @ + 1]
                              ELSE assigned
    /\ UNCHANGED <<started, selectedCatId, currentView, currentPage, lastPageFull,
                   events, screen, detail, errorLogged, last>>
    /\ UNCHANGED harnessVars

\* the continuation after await api(...) of a request that came back ok
ResponseArrives(r) ==
    /\ r \in pending
    /\ r.n >= 0
    /\ r.kind = "sightings" \/ r.n = 1
    /\ LET s == [Page EXCEPT !.pending = @ \ {r}]
       IN  CASE r.kind = "sightings" ->
                   /\ lastPageFull' = (r.n = PAGE_SIZE)
                   /\ screen' = renderSightings(r, currentPage, r.n = PAGE_SIZE)
                   /\ Commit(s, "renderSightings", NoRequest)
             [] r.kind = "detail" ->
                   /\ Commit([s EXCEPT !.detail = r.view], "renderDetail", NoRequest)
                   /\ UNCHANGED <<lastPageFull, screen>>
             [] r.kind = "dismiss" ->
                   /\ Commit(reloadCurrentView(s, "reload"), "dismissSighting:done", NoRequest)
                   /\ UNCHANGED <<lastPageFull, screen>>
             [] r.kind = "assign" ->
                   /\ Commit(assignSighting(s), "assignSighting:done", NoRequest)
                   /\ UNCHANGED <<lastPageFull, screen>>
             [] r.kind = "deleteCat" ->
                   /\ Commit(deleteCat(s), "deleteCat:done", NoRequest)
                   /\ UNCHANGED <<lastPageFull, screen>>
             [] r.kind = "saveCat" ->
                   /\ Commit(loadCatDetail(s, r.view), "saveCat:done", NoRequest)
                   /\ UNCHANGED <<lastPageFull, screen>>
    /\ UNCHANGED <<started, events, unassigned, assigned, errorLogged>>
    /\ UNCHANGED harnessVars

\* fetch rejects or res.ok is false: api throws, the catch logs the error
RequestFails(r) ==
    /\ r \in pending
    /\ errorLogged' = TRUE
    /\ Commit([Page EXCEPT !.pending = @ \ {r}], "console.error", r)
    /\ UNCHANGED <<started, events, lastPageFull, unassigned, assigned, screen>>
    /\ UNCHANGED harnessVars

UINext ==
    \/ Startup
    \/ ClickAll
    \/ ClickUnassigned
    \/ \E c \in CatIds : ClickCat(c)
    \/ ClickPrev
    \/ ClickNext
    \/ ClickDismiss
    \/ \E c \in CatIds : ClickAssign(c)
    \/ \E c \in CatIds : ClickDelete(c)
    \/ \E c \in CatIds : ClickSave(c)
    \/ \E r \in pending : ServerAnswers(r)
    \/ \E r \in pending : ResponseArrives(r)
    \/ \E r \in pending : RequestFails(r)

\* the page is loaded; the script is not running
UIInit ==
    /\ arithErrexit = FALSE
    /\ dirExists = [c \in CategorySet |-> FALSE]
    /\ nClips = [c \in CategorySet |-> 0]
    /\ ScriptStart
    /\ PageStart
    /\ unassigned \in Counts
    /\ assigned \in [CatIds -> {0, PAGE_SIZE}]

UISpec == UIInit /\ [][UINext]_vars

(* ------------------------------ claims --------------------------------- *)

RunClipPcs == {"invoke", "grep", "score", "count", "print"}

TotalFixtures ==
    nClips[Categories[1]] + nClips[Categories[2]] + nClips[Categories[3]]

\* C1: every (fixture, configuration) pair produces exactly one verdict:
\* after each completed run_clip call PASS + FAIL + WARN is the number of
\* evaluations completed, and at the summary line it is the number of
\* configurations times the number of fixtures.
C1_OneVerdictPerPair ==
    (\A c \in CategorySet : dirExists[c]) =>
        /\ pc = "loop" => PASS + FAIL + WARN = lines
        /\ pc = "summary" => PASS + FAIL + WARN = Len(FrameSkips) * TotalFixtures

\* every category holds at least one clip file
AllCategoriesFilled == \A c \in CategorySet : dirExists[c] /\ nClips[c] > 0

\* C2: the script exits with a non-zero status if and only if the fail
\* count is greater than zero (stated for runs over non-empty categories).
C2_ExitIffFail ==
    (AllCategoriesFilled /\ pc = "exited") => ((exitStatus # 0) <=> (FAIL > 0))

\* C3: evaluating a borderline fixture (expect = either) never changes FAIL;
\* a detected one adds one to WARN only, a missed one adds one to PASS only.
C3_BorderlineNeverFails ==
    [][(pc \in RunClipPcs /\ expect = "either") =>
          /\ FAIL' = FAIL
          /\ pc = "score" =>
                IF has_detection
                THEN WARN' = WARN + 1 /\ PASS' = PASS
                ELSE PASS' = PASS + 1 /\ WARN' = WARN
          /\ pc # "score" => (PASS' = PASS /\ WARN' = WARN)]_vars

\* a missed borderline clip has been scored after a detected one
C3_Witness ==
    /\ clip # Pattern
    /\ expect = "either"
    /\ pc = "count"
    /\ ~has_detection
    /\ result = "OK (missed)"
    /\ WARN >= 1
    /\ PASS >= 1

\* C4: positive and negative fixtures follow the verdict table: positive
\* detected and negative not detected add one to PASS only, positive not
\* detected and negative detected add one to FAIL only, WARN never changes.
C4_VerdictTable ==
    [][(pc = "score" /\ expect \in {"detect", "none"}) =>
          /\ WARN' = WARN
          /\ IF has_detection = (expect = "detect")
             THEN result' = "PASS" /\ PASS' = PASS + 1 /\ FAIL' = FAIL
             ELSE result' = "FAIL" /\ FAIL' = FAIL + 1 /\ PASS' = PASS]_vars

\* a detected negative clip has been scored as the second failure, after a pass
C4_Witness ==
    /\ clip # Pattern
    /\ expect = "none"
    /\ pc = "count"
    /\ has_detection
    /\ result = "FAIL"
    /\ FAIL >= 2
    /\ PASS >= 1

\* C5: a detector invocation that hangs on a clip does not stall the
\* sweep: the sweep still reaches the summary line.
C5_HangDoesNotStall ==
    (detector = "hung" /\ clip # Pattern) ~> summaryPrinted

\* C6: the detector's exit status is not load-bearing: whenever the
\* detector ends on a clip, with whatever status, run_clip goes on to
\* classify the output and the sweep is not ended.
C6_StatusNotLoadBearing ==
    [][(detector = "running" /\ clip # Pattern /\ detector' = "idle") =>
          pc' = "grep"]_vars

\* an integer stands before the word "animal" at position p
IntegerBefore(s, p) ==
    /\ p >= 3
    /\ s[p] = "animal"
    /\ s[p - 1] = " "
    /\ s[p - 2] \in Digits

HasIntegerBeforeAnimal(s) ==
    \E p \in 1..Len(s) : IntegerBefore(s, p)

\* the first integer that immediately precedes the word "animal"
FirstIntegerBeforeAnimal(s) ==
    LET p == CHOOSE m \in 1..Len(s) :
                /\ IntegerBefore(s, m)
                /\ \A n \in 1..Len(s) : IntegerBefore(s, n) => m <= n
        q == CHOOSE m \in 1..(p - 2) :
                /\ \A k \in m..(p - 2) : s[k] \in Digits
                /\ \A n \in 1..(p - 2) : (\A k \in n..(p - 2) : s[k] \in Digits) => m <= n
    IN  SubSeq(s, q, p - 2)

\* C7: when the output has the marker but no integer before "animal", the
\* evaluation yields detected = true with count = 0 and goes on to print
\* its progress line.
C7_UnparseableCountIsZero ==
    [][(pc = "count" /\ clip # Pattern /\ HasMarker(output)
            /\ ~HasIntegerBeforeAnimal(output)) =>
          (has_detection /\ count' = <<"0">> /\ pc' = "print")]_vars

\* C8: output with the marker gives detected = true and the first integer
\* before "animal" as count; output without the marker gives detected =
\* false and count = 0.
C8_Classification ==
    (pc = "print" /\ clip # Pattern) =>
        /\ HasMarker(output) =>
              /\ has_detection
              /\ HasIntegerBeforeAnimal(output) =>
                    count = FirstIntegerBeforeAnimal(output)
        /\ ~HasMarker(output) => (~has_detection /\ count = <<"0">>)

\* C9: a category whose directory exists but holds no clip causes no
\* detector invocation.
C9_EmptyCategoryNoInvocation ==
    detector = "running" =>
        ~(dirExists[CategoryOf(expect)] /\ nClips[CategoryOf(expect)] = 0)

\* C10: when the directory of a category does not exist, no run_clip call
\* is made and no counter changes.
C10_MissingDirectoryAborts ==
    (\E c \in CategorySet : ~dirExists[c]) =>
        /\ pc \notin RunClipPcs
        /\ detector = "idle"
        /\ PASS = 0 /\ FAIL = 0 /\ WARN = 0

\* C11: the summary line is printed on every run before the script exits.
C11_SummaryBeforeExit ==
    (AllCategoriesFilled /\ pc = "exited") => summaryPrinted

\* the sweep has finished its first two frame skips
TwoPassesDone ==
    /\ pc = "loop"
    /\ idx = 2 * Len(PassWork(FrameSkips[1])) + 1

Rank(e) ==
    CASE e = "detect" -> 1
      [] e = "none" -> 2
      [] e = "either" -> 3

\* (configuration, category, fixture) order
Before(fs1, e1, c1, fs2, e2, c2) ==
    \/ fs1 < fs2
    \/ fs1 = fs2 /\ Rank(e1) < Rank(e2)
    \/ fs1 = fs2 /\ Rank(e1) = Rank(e2) /\ c1 < c2

\* the clip the third loop of a configuration ends with
LastBorderlineClip ==
    IF nClips[Categories[3]] > 0 THEN nClips[Categories[3]] ELSE Pattern

\* C13: invocations happen one at a time in strict (configuration,
\* category, fixture) order, each after the counter update and progress line
\* of the one before, and the summary comes after the last invocation of
\* the last configuration.
C13_StrictOrder ==
    [][/\ (detector = "idle" /\ detector' = "running") =>
              /\ pc = "loop"
              /\ ~summaryPrinted
              /\ PASS + FAIL + WARN = lines
              /\ lines > 0 =>
                    Before(frame_skip, expect, clip, frame_skip', expect', clip')
              /\ lines = 0 =>
                    (frame_skip' = FrameSkips[1] /\ expect' = "detect")
       /\ (detector = "running") => (detector' # "running" => pc' # "loop")
       /\ (~summaryPrinted /\ summaryPrinted') =>
              /\ detector = "idle"
              /\ PASS + FAIL + WARN = lines
              /\ frame_skip = FrameSkips[3]
              /\ expect = "either"
              /\ clip = LastBorderlineClip]_vars

\* the second clip of a directory is under the detector at the second frame skip
C13_Witness ==
    /\ detector = "running"
    /\ frame_skip = FrameSkips[2]
    /\ expect = "none"
    /\ clip = 2
    /\ lines > 0

\* C14: with a deterministic detector every evaluation has one verdict: the
\* text the detector printed leaves one outcome to the marker test.
C14_SameOutputSameVerdict ==
    (pc = "grep" /\ clip # Pattern) =>
        ~(/\ ENABLED (GrepMarker /\ has_detection')
          /\ ENABLED (GrepMarker /\ ~has_detection'))

\* C15: once no request is in flight (and none has failed) the list on
\* screen is as long as the answer for the current view and page, and
\* lastPageFull tells whether that answer is a full page.
C15_ScreenIsCurrentView ==
    (pending = {} /\ ~errorLogged /\ screen.kind # "none") =>
        /\ screen.n = PageLen(currentView, currentPage)
        /\ lastPageFull = (PageLen(currentView, currentPage) = PAGE_SIZE)

\* C16: nextPage increments currentPage only when the page currentPage of
\* the current view has been fetched and held exactly PAGE_SIZE sightings.
C16_NextOnlyAfterFullPage ==
    [][(currentPage' = currentPage + 1) =>
          /\ screen.kind = "list"
          /\ screen.view = currentView
          /\ screen.page = currentPage
          /\ screen.n = PAGE_SIZE]_vars

\* C17: whenever the list has been rendered with currentPage > 0, the
\* pagination is on screen with an enabled Previous button.
C17_PreviousAvailable ==
    (screen.kind # "none" /\ screen.label > 0) =>
        (screen.kind = "list" /\ screen.prev)

\* C18: when the fetch sent by nextPage or prevPage fails, currentPage is
\* what it was before the click.
C18_FailedPageTurnRestored ==
    (/\ last.ev = "console.error"
     /\ last.req.kind = "sightings"
     /\ last.req.origin \in {"prev", "next"}) =>
        currentPage = last.req.pageBefore

ViewConsistent ==
    /\ currentPage >= 0
    /\ \/ currentView \in {"all", "unassigned"} /\ selectedCatId = "null"
       \/ currentView \in CatIds /\ selectedCatId = currentView

SelectionResetsPage ==
    last.ev \in {"loadAllSightings", "loadUnassignedSightings", "loadCatDetail",
                 "deleteCat:done"} =>
        currentPage = 0

====
